---- MODULE Spec2Model ----
(***************************************************************************)
(* Model of funrec.inputs.core: the feature descriptors, the column layout *)
(* (build_input_features), the embedding tables (create_embedding_matrix), *)
(* the lookups (embedding_lookup, varlen_embedding_lookup) and the input   *)
(* combiner (combined_dnn_input).                                          *)
(***************************************************************************)
EXTENDS Integers, Sequences, FiniteSets, TLC

VARIABLES
    feature_columns,            \* the ordered descriptor list handed to the functions
    pc,                         \* where the call under study stands
    features,                   \* build_input_features: the OrderedDict name -> (start, end)
    start,                      \* build_input_features: the running cursor
    i,                          \* build_input_features: position of the for loop
    ctor_args,                  \* SparseFeat.__init__: the arguments of the call
    self,                       \* SparseFeat.__init__: the constructed descriptor
    linear,                     \* create_embedding_matrix: the linear flag
    embedding_dict,             \* the nn.ModuleDict embedding_name -> nn.Embedding
    weight,                     \* the weight of each nn.Embedding instance, by instance id
    return_feat_list,           \* embedding_lookup: the names to return (empty: all)
    to_list,                    \* embedding_lookup: the to_list flag
    group_embedding_dict,       \* embedding_lookup: what the call returned
    varlen_embedding_vec_dict,  \* varlen_embedding_lookup: what the call returned
    varlen_sparse_embedding_list, \* get_varlen_pooling_list: what the call returned
    sparse_embedding_list,      \* combined_dnn_input: first argument
    dense_value_list,           \* combined_dnn_input: second argument
    dnn_input                   \* combined_dnn_input: what the call returned or raised

layoutVars == <<features, start, i>>
ctorVars == <<ctor_args, self>>
tableVars == <<linear, embedding_dict, weight>>
lookupVars == <<return_feat_list, to_list, group_embedding_dict, varlen_embedding_vec_dict,
                varlen_sparse_embedding_list>>
combineVars == <<sparse_embedding_list, dense_value_list, dnn_input>>

vars == <<feature_columns, pc, layoutVars, ctorVars, tableVars, lookupVars, combineVars>>

----------------------------------------------------------------------------
(* Bounds of the model *)

MaxCols == 3        \* longest descriptor list handed to build_input_features
MaxWidth == 2       \* largest DenseFeat dimension / VarLenSparseFeat maxlen
MaxVocabulary == 90 \* largest vocabulary_size handed to SparseFeat.__init__
MaxTableCols == 2   \* longest descriptor list handed to create_embedding_matrix
MaxTableVocab == 2  \* largest vocabulary_size among those descriptors
MaxLookupCols == 3  \* longest descriptor list handed to the lookups
MaxVecs == 3        \* longest list of tensors handed to combined_dnn_input
MaxDim == 2         \* widest of those tensors
MaxPoolCols == 3    \* longest descriptor list handed to get_varlen_pooling_list

----------------------------------------------------------------------------
(* Python values *)

NONE == "None"
DEFAULT_GROUP_NAME == "default_group"
DefaultEmbeddingDim == 4
AUTO == 0           \* stands for the string "auto" given as embedding_dim

\* int(pow(v, 0.25)): the fourth root, truncated towards zero
IntPow025(v) == CHOOSE k \in 0..v : k * k * k * k <= v /\ v < (k + 1) * (k + 1) * (k + 1) * (k + 1)

----------------------------------------------------------------------------
(* Ordered dictionaries (OrderedDict, defaultdict, nn.ModuleDict): a        *)
(* sequence of entries [k, v] with distinct keys, in insertion order.       *)

Keys(d) == {d[n].k : n \in 1..Len(d)}

Has(d, key) == key \in Keys(d)

Get(d, key) == d[CHOOSE n \in 1..Len(d) : d[n].k = key].v

\* d[key] = val: a present key keeps its position, a new key goes last
Put(d, key, val) ==
    IF Has(d, key)
    THEN [n \in 1..Len(d) |-> IF d[n].k = key THEN [k |-> key, v |-> val] ELSE d[n]]
    ELSE Append(d, [k |-> key, v |-> val])

----------------------------------------------------------------------------
(* Feature descriptors.  One record shape for all kinds; a field a kind     *)
(* does not have holds NONE (names) or 0 (numbers).                         *)

\* the fourth root rounded to the nearest integer (no integer v has a fourth
\* root half way between two integers)
RoundPow025(v) ==
    CHOOSE k \in 0..v : (2 * k - 1) * (2 * k - 1) * (2 * k - 1) * (2 * k - 1) <= 16 * v
                        /\ 16 * v < (2 * k + 1) * (2 * k + 1) * (2 * k + 1) * (2 * k + 1)

\* a plausible slip: round() where the source has int()
SparseFeat_AutoRounds(name, vocabulary_size, embedding_dim, use_hash, embedding_name, group_name) ==
    [kind            |-> "SparseFeat",
     name            |-> name,
     vocabulary_size |-> vocabulary_size,
     embedding_dim   |-> IF embedding_dim = AUTO
                         THEN 6 * RoundPow025(vocabulary_size)
                         ELSE embedding_dim,
     use_hash        |-> use_hash,
     embedding_name  |-> IF embedding_name = NONE THEN name ELSE embedding_name,
     group_name      |-> group_name,
     maxlen          |-> 0,
     combiner        |-> NONE,
     length_name     |-> NONE,
     dimension       |-> 0]

SparseFeat(name, vocabulary_size, embedding_dim, use_hash, embedding_name, group_name) ==
    [kind            |-> "SparseFeat",
     name            |-> name,
     vocabulary_size |-> vocabulary_size,
     embedding_dim   |-> IF embedding_dim = AUTO
                         THEN 6 * IntPow025(vocabulary_size)
                         ELSE embedding_dim,
     use_hash        |-> use_hash,
     embedding_name  |-> IF embedding_name = NONE THEN name ELSE embedding_name,
     group_name      |-> group_name,
     maxlen          |-> 0,
     combiner        |-> NONE,
     length_name     |-> NONE,
     dimension       |-> 0]

\* name, vocabulary_size, embedding_dim, use_hash, embedding_name and
\* group_name are properties that delegate to the wrapped SparseFeat
VarLenSparseFeat(sparsefeat, maxlen, combiner, length_name) ==
    [sparsefeat EXCEPT !.kind = "VarLenSparseFeat",
                       !.maxlen = maxlen,
                       !.combiner = combiner,
                       !.length_name = length_name]

DenseFeat(name, dimension) ==
    [kind            |-> "DenseFeat",
     name            |-> name,
     vocabulary_size |-> 0,
     embedding_dim   |-> 0,
     use_hash        |-> FALSE,
     embedding_name  |-> NONE,
     group_name      |-> NONE,
     maxlen          |-> 0,
     combiner        |-> NONE,
     length_name     |-> NONE,
     dimension       |-> dimension]

\* an object with a name that is an instance of none of the three classes
OtherFeat(name) == [DenseFeat(name, 0) EXCEPT !.kind = "Other"]

----------------------------------------------------------------------------
(* build_input_features *)

\* lines 124-126: a SparseFeat takes one column
AllocSparse(st, feat) ==
    [st EXCEPT !.features = Put(@, feat.name, <<st.start, st.start + 1>>),
               !.start = @ + 1]

\* a plausible slip: the range has the dimension but the cursor moves by one
AllocDense_CursorByOne(st, feat) ==
    [st EXCEPT !.features = Put(@, feat.name, <<st.start, st.start + feat.dimension>>),
               !.start = @ + 1]

\* lines 127-129: a DenseFeat takes dimension columns
AllocDense(st, feat) ==
    [st EXCEPT !.features = Put(@, feat.name, <<st.start, st.start + feat.dimension>>),
               !.start = @ + feat.dimension]

\* a plausible slip: the length column is allocated whenever a length_name is
\* declared, without the "not in features" test
AllocVarLen_LengthAlways(st, feat) ==
    LET seq == [st EXCEPT !.features = Put(@, feat.name, <<st.start, st.start + feat.maxlen>>),
                          !.start = @ + feat.maxlen]
    IN  IF feat.length_name # NONE
        THEN [seq EXCEPT !.features = Put(@, feat.length_name, <<seq.start, seq.start + 1>>),
                         !.start = @ + 1]
        ELSE seq

\* lines 130-135: a VarLenSparseFeat takes maxlen columns, and one more for
\* its length_name when that name is declared and not yet a key
AllocVarLen(st, feat) ==
    LET seq == [st EXCEPT !.features = Put(@, feat.name, <<st.start, st.start + feat.maxlen>>),
                          !.start = @ + feat.maxlen]
    IN  IF feat.length_name # NONE /\ ~Has(seq.features, feat.length_name)
        THEN [seq EXCEPT !.features = Put(@, feat.length_name, <<seq.start, seq.start + 1>>),
                         !.start = @ + 1]
        ELSE seq

\* lines 124-137: the isinstance dispatch
Dispatch(st, feat) ==
    IF feat.kind = "SparseFeat" THEN AllocSparse(st, feat)
    ELSE IF feat.kind = "DenseFeat" THEN AllocDense(st, feat)
    ELSE IF feat.kind = "VarLenSparseFeat" THEN AllocVarLen(st, feat)
    ELSE [st EXCEPT !.raised = TRUE]

\* a plausible slip: no test for a name that is already a key
LoopBody_NoSkip(st, feat) == Dispatch(st, feat)

\* one iteration of the for loop on descriptor feat; st = [features, start, raised]
LoopBody(st, feat) ==
    IF Has(st.features, feat.name) THEN st ELSE Dispatch(st, feat)

\* the whole call: the fold of LoopBody over the list, stopped by the raise
RECURSIVE FoldLoop(_, _, _)
FoldLoop(st, cols, n) ==
    IF n > Len(cols) \/ st.raised THEN st ELSE FoldLoop(LoopBody(st, cols[n]), cols, n + 1)

build_input_features(cols) ==
    FoldLoop([features |-> <<>>, start |-> 0, raised |-> FALSE], cols, 1)

----------------------------------------------------------------------------
(* create_embedding_matrix *)

\* nn.Embedding(num_embeddings, embedding_dim): a new module instance; id
\* tells the instances apart
Embedding(id, num_embeddings, embedding_dim) ==
    [id |-> id, num_embeddings |-> num_embeddings, embedding_dim |-> embedding_dim]

IsSparse(fc) == fc.kind = "SparseFeat"
IsVarLen(fc) == fc.kind = "VarLenSparseFeat"
IsDense(fc) == fc.kind = "DenseFeat"

\* lines 192-202: the two filtered lists, sparse before variable-length
EmbeddingColumns(cols) == SelectSeq(cols, IsSparse) \o SelectSeq(cols, IsVarLen)

\* a plausible slip: a key that is already in the dict keeps its first table
RECURSIVE Comprehension_FirstWins(_, _, _, _)
Comprehension_FirstWins(d, order, n, lin) ==
    IF n > Len(order) THEN d
    ELSE Comprehension_FirstWins(
             IF Has(d, order[n].embedding_name) THEN d
             ELSE Put(d, order[n].embedding_name,
                      Embedding(n, order[n].vocabulary_size,
                                IF ~lin THEN order[n].embedding_dim ELSE 1)),
             order, n + 1, lin)

\* lines 204-213: the dict comprehension; every descriptor builds an
\* nn.Embedding and a later one replaces an earlier one under the same key
RECURSIVE Comprehension(_, _, _, _)
Comprehension(d, order, n, lin) ==
    IF n > Len(order) THEN d
    ELSE Comprehension(
             Put(d, order[n].embedding_name,
                 Embedding(n, order[n].vocabulary_size,
                           IF ~lin THEN order[n].embedding_dim ELSE 1)),
             order, n + 1, lin)

create_embedding_matrix(cols, lin) == Comprehension(<<>>, EmbeddingColumns(cols), 1, lin)

\* lines 219-220: every table's weight is drawn anew; 0 stands for the drawn
\* value, a later optimizer step writes another one
InitialWeights(d) == [id \in {d[n].v.id : n \in 1..Len(d)} |-> 0]

----------------------------------------------------------------------------
(* embedding_lookup and varlen_embedding_lookup *)

\* table(X[:, lo:hi].long()): the embedding that module instance table gives
\* for the columns slice = (lo, hi) of X, computed for descriptor fc
Emb(fc, table, slice) == [fc |-> fc, table |-> table, slice |-> slice]

\* a plausible slip: the table is looked for under the feature's own name
TableKey_FeatureName(fc) == fc.name

\* lines 248 and 268: the key under which a descriptor's table is looked for
TableKey(fc) == fc.embedding_name

\* lines 249 and 253-255: is the descriptor selected, and do both dictionary
\* reads succeed (a missing key raises KeyError)
Selected(fc, rfl) == rfl = {} \/ fc.name \in rfl

Resolves(fc, tables, layout) == Has(layout, fc.name) /\ Has(tables, TableKey(fc))

\* group_embedding_dict[group].append(emb) on a defaultdict(list)
AppendTo(d, group, emb) ==
    Put(d, group, Append(IF Has(d, group) THEN Get(d, group) ELSE <<>>, emb))

\* a plausible slip: return_feat_list is not consulted
EmbeddingLookupBody_NoFilter(st, fc, tables, layout, rfl) ==
    IF st.raised # NONE THEN st
    ELSE IF ~Resolves(fc, tables, layout) THEN [st EXCEPT !.raised = "KeyError"]
    ELSE [st EXCEPT !.out = AppendTo(@, fc.group_name,
                                     Emb(fc, Get(tables, TableKey(fc)), Get(layout, fc.name)))]

\* lines 246-256: one iteration of the for loop; st = [out, raised]
EmbeddingLookupBody(st, fc, tables, layout, rfl) ==
    IF st.raised # NONE THEN st
    ELSE IF ~Selected(fc, rfl) THEN st
    ELSE IF ~Resolves(fc, tables, layout) THEN [st EXCEPT !.raised = "KeyError"]
    ELSE [st EXCEPT !.out = AppendTo(@, fc.group_name,
                                     Emb(fc, Get(tables, TableKey(fc)), Get(layout, fc.name)))]

RECURSIVE EmbeddingLookupLoop(_, _, _, _, _, _)
EmbeddingLookupLoop(st, cols, n, tables, layout, rfl) ==
    IF n > Len(cols) THEN st
    ELSE EmbeddingLookupLoop(EmbeddingLookupBody(st, cols[n], tables, layout, rfl),
                             cols, n + 1, tables, layout, rfl)

\* list(chain.from_iterable(d.values()))
RECURSIVE Chain(_, _)
Chain(d, n) == IF n > Len(d) THEN <<>> ELSE d[n].v \o Chain(d, n + 1)

\* lines 245-259; the result is [raised, value]
embedding_lookup(tables, layout, cols, rfl, toList) ==
    LET st == EmbeddingLookupLoop([out |-> <<>>, raised |-> NONE], cols, 1, tables, layout, rfl)
    IN  IF st.raised # NONE THEN [raised |-> st.raised, value |-> NONE]
        ELSE [raised |-> NONE, value |-> IF toList THEN Chain(st.out, 1) ELSE st.out]

\* lines 266-277: one iteration; the use_hash branch reads the same entry
VarlenLookupBody(st, fc, tables, layout) ==
    IF st.raised # NONE THEN st
    ELSE IF ~Resolves(fc, tables, layout) THEN [st EXCEPT !.raised = "KeyError"]
    ELSE [st EXCEPT !.out = Put(@, fc.name,
                                Emb(fc, Get(tables, TableKey(fc)), Get(layout, fc.name)))]

RECURSIVE VarlenLookupLoop(_, _, _, _, _)
VarlenLookupLoop(st, cols, n, tables, layout) ==
    IF n > Len(cols) THEN st
    ELSE VarlenLookupLoop(VarlenLookupBody(st, cols[n], tables, layout),
                          cols, n + 1, tables, layout)

\* lines 262-279; the result is [raised, value]
varlen_embedding_lookup(tables, layout, cols) ==
    LET st == VarlenLookupLoop([out |-> <<>>, raised |-> NONE], cols, 1, tables, layout)
    IN  IF st.raised # NONE THEN [raised |-> st.raised, value |-> NONE]
        ELSE [raised |-> NONE, value |-> st.out]

----------------------------------------------------------------------------
(* get_varlen_pooling_list *)

\* features[:, lo:hi].long() != 0 and features[:, lo:hi].long(), for the
\* layout range slice = (lo, hi)
SeqMask(slice) == [kind |-> "mask", slice |-> slice]
SeqLength(slice) == [kind |-> "length", slice |-> slice]

\* SequencePoolingLayer(mode=mode, supports_masking=supports_masking)(inputs):
\* the call, with what it is handed
SequencePoolingLayer(mode, supports_masking, inputs) ==
    [mode |-> mode, supports_masking |-> supports_masking, inputs |-> inputs]

\* lines 162-183: one iteration of the for loop; st = [out, raised]; a
\* dictionary read of a missing key raises KeyError
PoolingBody(st, feat, embs, layout) ==
    IF st.raised # NONE THEN st
    ELSE IF ~Has(embs, feat.name) THEN [st EXCEPT !.raised = "KeyError"]
    ELSE IF feat.length_name = NONE
    THEN IF ~Has(layout, feat.name) THEN [st EXCEPT !.raised = "KeyError"]
         ELSE [st EXCEPT !.out = Append(@,
                   SequencePoolingLayer(feat.combiner, TRUE,
                       <<Get(embs, feat.name), SeqMask(Get(layout, feat.name))>>))]
    ELSE IF ~Has(layout, feat.length_name) THEN [st EXCEPT !.raised = "KeyError"]
         ELSE [st EXCEPT !.out = Append(@,
                   SequencePoolingLayer(feat.combiner, FALSE,
                       <<Get(embs, feat.name), SeqLength(Get(layout, feat.length_name))>>))]

RECURSIVE PoolingLoop(_, _, _, _, _)
PoolingLoop(st, cols, n, embs, layout) ==
    IF n > Len(cols) THEN st
    ELSE PoolingLoop(PoolingBody(st, cols[n], embs, layout), cols, n + 1, embs, layout)

\* lines 158-184; the result is [raised, value]
get_varlen_pooling_list(embs, layout, cols) ==
    LET st == PoolingLoop([out |-> <<>>, raised |-> NONE], cols, 1, embs, layout)
    IN  IF st.raised # NONE THEN [raised |-> st.raised, value |-> NONE]
        ELSE [raised |-> NONE, value |-> st.out]

----------------------------------------------------------------------------
(* combined_dnn_input.  A tensor is modelled by one example of the batch:   *)
(* an embedding is a 1 x d matrix <<row>>, a dense value a vector of d.     *)

RECURSIVE ConcatAll(_, _)
ConcatAll(seqs, n) == IF n > Len(seqs) THEN <<>> ELSE seqs[n] \o ConcatAll(seqs, n + 1)

\* torch.cat(tensors, dim=-1) of 1 x d matrices, and of vectors
CatMatrices(ts) == << ConcatAll([n \in 1..Len(ts) |-> ts[n][1]], 1) >>
CatVectors(ts) == ConcatAll(ts, 1)

\* torch.flatten(t, start_dim=1): the example's rows one after the other;
\* a vector is flat already
FlattenMatrix(t) == ConcatAll(t, 1)

\* funrec.layers.utils.concat_fun: concatenation along the last axis
concat_fun(inputs) == ConcatAll(inputs, 1)

\* a plausible slip: the dense part is put before the sparse part
combined_dnn_input_DenseFirst(sparse_list, dense_list) ==
    IF Len(sparse_list) > 0 /\ Len(dense_list) > 0
    THEN [raised |-> NONE,
          value  |-> concat_fun(<<CatVectors(dense_list),
                                  FlattenMatrix(CatMatrices(sparse_list))>>)]
    ELSE IF Len(sparse_list) > 0
    THEN [raised |-> NONE, value |-> FlattenMatrix(CatMatrices(sparse_list))]
    ELSE IF Len(dense_list) > 0
    THEN [raised |-> NONE, value |-> CatVectors(dense_list)]
    ELSE [raised |-> "NotImplementedError", value |-> <<>>]

\* lines 141-155; the result is [raised, value]
combined_dnn_input(sparse_list, dense_list) ==
    IF Len(sparse_list) > 0 /\ Len(dense_list) > 0
    THEN [raised |-> NONE,
          value  |-> concat_fun(<<FlattenMatrix(CatMatrices(sparse_list)),
                                  CatVectors(dense_list)>>)]
    ELSE IF Len(sparse_list) > 0
    THEN [raised |-> NONE, value |-> FlattenMatrix(CatMatrices(sparse_list))]
    ELSE IF Len(dense_list) > 0
    THEN [raised |-> NONE, value |-> CatVectors(dense_list)]
    ELSE [raised |-> "NotImplementedError", value |-> <<>>]

----------------------------------------------------------------------------
(* The variables of the functions a specification does not call *)

LayoutIdle == features = <<>> /\ start = 0 /\ i = 0
CtorIdle == ctor_args = NONE /\ self = NONE
TableIdle == linear = FALSE /\ embedding_dict = <<>> /\ weight = <<>>
LookupIdle ==
    /\ return_feat_list = {}
    /\ to_list = FALSE
    /\ group_embedding_dict = NONE
    /\ varlen_embedding_vec_dict = NONE
    /\ varlen_sparse_embedding_list = NONE
CombineIdle ==
    /\ sparse_embedding_list = <<>>
    /\ dense_value_list = <<>>
    /\ dnn_input = [raised |-> NONE, value |-> <<>>]

----------------------------------------------------------------------------
(* Specification SpecLayout: one call of build_input_features, a loop       *)
(* iteration per step.                                                      *)

FeatNames == {"a", "b"}
LengthNames == {NONE, "a", "len"}
Widths == 1..MaxWidth

LayoutDescriptors ==
    {SparseFeat(n, 2, DefaultEmbeddingDim, FALSE, NONE, DEFAULT_GROUP_NAME) : n \in FeatNames}
    \cup {DenseFeat(n, w) : n \in FeatNames, w \in Widths}
    \cup {VarLenSparseFeat(SparseFeat(n, 2, DefaultEmbeddingDim, FALSE, NONE, DEFAULT_GROUP_NAME),
                           w, "mean", l) : n \in FeatNames, w \in Widths, l \in LengthNames}
    \cup {OtherFeat(n) : n \in FeatNames}

ListsOf(S, maxLen) == UNION {[1..n -> S] : n \in 0..maxLen}

InitLayout ==
    /\ feature_columns \in ListsOf(LayoutDescriptors, MaxCols)
    /\ pc = "loop"
    /\ features = <<>>
    /\ start = 0
    /\ i = 1
    /\ CtorIdle /\ TableIdle /\ LookupIdle /\ CombineIdle

Iterate ==
    /\ pc = "loop"
    /\ i <= Len(feature_columns)
    /\ LET st == LoopBody([features |-> features, start |-> start, raised |-> FALSE],
                          feature_columns[i])
       IN  /\ features' = st.features
           /\ start' = st.start
           /\ pc' = IF st.raised THEN "TypeError" ELSE "loop"
           /\ i' = IF st.raised THEN i ELSE i + 1
    /\ UNCHANGED <<feature_columns, ctorVars, tableVars, lookupVars, combineVars>>

Return ==
    /\ pc = "loop"
    /\ i > Len(feature_columns)
    /\ pc' = "returned"
    /\ UNCHANGED <<feature_columns, layoutVars, ctorVars, tableVars, lookupVars, combineVars>>

NextLayout == Iterate \/ Return

SpecLayout == InitLayout /\ [][NextLayout]_vars

----------------------------------------------------------------------------
(* Claims about build_input_features, checked under SpecLayout *)

Lo(d, n) == d[n].v[1]
Hi(d, n) == d[n].v[2]
Feat == feature_columns[i]
InLoop == pc = "loop" /\ i <= Len(feature_columns)

\* C1: the returned ranges, in insertion order, are non-empty, pairwise
\* non-overlapping, strictly increasing in start offset and contiguous: the
\* first starts at 0 and each later one starts where the previous one ends.
C1_RangesContiguous ==
    pc = "returned" =>
        /\ \A n \in 1..Len(features) :
              /\ Lo(features, n) < Hi(features, n)
              /\ Lo(features, n) = IF n = 1 THEN 0 ELSE Hi(features, n - 1)
        /\ \A m, n \in 1..Len(features) :
              m < n => /\ Hi(features, m) <= Lo(features, n)
                       /\ Lo(features, m) < Lo(features, n)

\* a returned layout of three ranges, one of them wider than a column, built
\* from a list in which a duplicate name was skipped
C1_Witness ==
    /\ pc = "returned"
    /\ Len(features) = 3
    /\ \E n \in 1..3 : Hi(features, n) - Lo(features, n) > 1
    /\ \E m, n \in 1..Len(feature_columns) :
          m < n /\ feature_columns[m].name = feature_columns[n].name

\* C2: an iteration on a descriptor whose name is already a key changes
\* neither the layout nor the cursor, and no iteration ever changes the range
\* of a name that is already a key (the first occurrence decides the range).
C2_DuplicateSkipped ==
    [][ /\ (InLoop /\ Has(features, Feat.name)) => (features' = features /\ start' = start)
        /\ \A key \in Keys(features) :
              Has(features', key) /\ Get(features', key) = Get(features, key) ]_vars

\* the loop has gone past a VarLenSparseFeat with a new length_name whose own
\* name was already a key: nothing was added for it
C2_Witness ==
    /\ pc = "returned"
    /\ \E m, n \in 1..Len(feature_columns) :
          /\ m < n
          /\ feature_columns[m].name = feature_columns[n].name
          /\ feature_columns[n].kind = "VarLenSparseFeat"
          /\ feature_columns[n].length_name = "len"
          /\ ~Has(features, "len")

C4_UnknownKindNeverReturns ==
    pc = "returned" =>
        \A n \in 1..Len(feature_columns) : feature_columns[n].kind # "Other"

----------------------------------------------------------------------------
(* Specification SpecFeat: one call of SparseFeat.__init__ *)

CtorArgs ==
    [name            : {"a"},
     vocabulary_size : 1..MaxVocabulary,
     embedding_dim   : {AUTO, DefaultEmbeddingDim},
     use_hash        : BOOLEAN,
     embedding_name  : {NONE, "e"},
     group_name      : {DEFAULT_GROUP_NAME}]

InitFeat ==
    /\ ctor_args \in CtorArgs
    /\ self = NONE
    /\ pc = "call"
    /\ feature_columns = <<>>
    /\ LayoutIdle /\ TableIdle /\ LookupIdle /\ CombineIdle

Construct ==
    /\ pc = "call"
    /\ self' = SparseFeat(ctor_args.name, ctor_args.vocabulary_size, ctor_args.embedding_dim,
                          ctor_args.use_hash, ctor_args.embedding_name, ctor_args.group_name)
    /\ pc' = "constructed"
    /\ UNCHANGED <<feature_columns, ctor_args, layoutVars, tableVars, lookupVars, combineVars>>

NextFeat == Construct

SpecFeat == InitFeat /\ [][NextFeat]_vars

\* C10 (as claimed): embedding_dim "auto" yields 6 * round(vocabulary_size^0.25),
\* the fourth root rounded to the nearest integer.
C10_AutoDimRounded ==
    (pc = "constructed" /\ ctor_args.embedding_dim = AUTO) =>
        self.embedding_dim = 6 * RoundPow025(ctor_args.vocabulary_size)

\* C10 (amended): embedding_dim "auto" yields 6 * k for the integer k with
\* k^4 <= vocabulary_size < (k+1)^4, i.e. the fourth root rounded down.
C10_AutoDimFloor ==
    (pc = "constructed" /\ ctor_args.embedding_dim = AUTO) =>
        \E k \in 0..ctor_args.vocabulary_size :
            /\ k * k * k * k <= ctor_args.vocabulary_size
            /\ ctor_args.vocabulary_size < (k + 1) * (k + 1) * (k + 1) * (k + 1)
            /\ self.embedding_dim = 6 * k

\* vocabulary_size 50 (fourth root 2.66) constructed with "auto": 12, not 18
C10_Witness ==
    /\ pc = "constructed"
    /\ ctor_args.embedding_dim = AUTO
    /\ ctor_args.vocabulary_size = 50
    /\ self.embedding_dim = 12

----------------------------------------------------------------------------
(* Specification SpecTables: one call of create_embedding_matrix *)

EmbeddingNames == {NONE, "e"}

TableSparseFeats ==
    {SparseFeat(n, v, d, FALSE, e, DEFAULT_GROUP_NAME) :
        n \in FeatNames, v \in 1..MaxTableVocab, d \in {AUTO, DefaultEmbeddingDim},
        e \in EmbeddingNames}

TableDescriptors ==
    TableSparseFeats
    \cup {VarLenSparseFeat(sf, 1, "mean", NONE) : sf \in TableSparseFeats}
    \cup {DenseFeat(n, 1) : n \in FeatNames}

InitTables ==
    /\ feature_columns \in ListsOf(TableDescriptors, MaxTableCols)
    /\ linear \in BOOLEAN
    /\ embedding_dict = <<>>
    /\ weight = <<>>
    /\ pc = "call"
    /\ LayoutIdle /\ CtorIdle /\ LookupIdle /\ CombineIdle

CreateEmbeddingMatrix ==
    /\ pc = "call"
    /\ embedding_dict' = create_embedding_matrix(feature_columns, linear)
    /\ weight' = InitialWeights(embedding_dict')
    /\ pc' = "created"
    /\ UNCHANGED <<feature_columns, linear, layoutVars, ctorVars, lookupVars, combineVars>>

NextTables == CreateEmbeddingMatrix

SpecTables == InitTables /\ [][NextTables]_vars

\* the embedding_names carried by the sparse and variable-length descriptors
CarriedNames == {feature_columns[n].embedding_name :
                    n \in {m \in 1..Len(feature_columns) :
                              IsSparse(feature_columns[m]) \/ IsVarLen(feature_columns[m])}}

OneTablePerName ==
    /\ Keys(embedding_dict) = CarriedNames
    /\ Len(embedding_dict) = Cardinality(CarriedNames)

SizedFrom(key, fc) ==
    /\ Get(embedding_dict, key).num_embeddings = fc.vocabulary_size
    /\ Get(embedding_dict, key).embedding_dim = IF linear THEN 1 ELSE fc.embedding_dim

\* C6 (as claimed): one table per distinct embedding_name of the sparse and
\* variable-length descriptors, none for dense ones, each sized
\* (vocabulary_size, 1 if linear else embedding_dim) from the first descriptor
\* of the input list that carries the name.
C6_SizedFromFirst ==
    pc = "created" =>
        /\ OneTablePerName
        /\ \A key \in CarriedNames :
              LET first == CHOOSE n \in 1..Len(feature_columns) :
                              /\ ~IsDense(feature_columns[n])
                              /\ feature_columns[n].embedding_name = key
                              /\ \A m \in 1..(n - 1) :
                                    IsDense(feature_columns[m])
                                    \/ feature_columns[m].embedding_name # key
              IN  SizedFrom(key, feature_columns[first])

\* C6 (amended): one table per distinct embedding_name of the sparse and
\* variable-length descriptors, none for dense ones, each sized
\* (vocabulary_size, 1 if linear else embedding_dim) from the last descriptor
\* that carries the name: the last VarLenSparseFeat of the input list with
\* that name if there is one, otherwise the last SparseFeat with it.
C6_SizedFromLast ==
    pc = "created" =>
        /\ OneTablePerName
        /\ \A key \in CarriedNames :
              LET carriers(kind) == {n \in 1..Len(feature_columns) :
                                        /\ feature_columns[n].kind = kind
                                        /\ feature_columns[n].embedding_name = key}
                  Last(S) == CHOOSE n \in S : \A m \in S : m <= n
                  last == IF carriers("VarLenSparseFeat") # {}
                          THEN Last(carriers("VarLenSparseFeat"))
                          ELSE Last(carriers("SparseFeat"))
              IN  SizedFrom(key, feature_columns[last])

\* tables built for a VarLenSparseFeat followed by a SparseFeat that share
\* the embedding_name "e" and differ in vocabulary_size: the table has the
\* size of the VarLenSparseFeat
C6_Witness ==
    /\ pc = "created"
    /\ ~linear
    /\ Len(feature_columns) = 2
    /\ IsVarLen(feature_columns[1]) /\ IsSparse(feature_columns[2])
    /\ feature_columns[1].embedding_name = "e" /\ feature_columns[2].embedding_name = "e"
    /\ feature_columns[1].vocabulary_size = 1 /\ feature_columns[2].vocabulary_size = 2
    /\ Get(embedding_dict, "e").num_embeddings = 1
    /\ Get(embedding_dict, "e").embedding_dim = feature_columns[1].embedding_dim

----------------------------------------------------------------------------
(* Specification SpecLookup: the layout and the tables are built from one   *)
(* descriptor list; then embedding_lookup, varlen_embedding_lookup and one  *)
(* optimizer step on a table that a lookup handed out.                      *)

GroupNames == {DEFAULT_GROUP_NAME, "user"}

LookupDescriptors ==
    {SparseFeat(n, 2, DefaultEmbeddingDim, FALSE, e, g) :
        n \in FeatNames, e \in EmbeddingNames, g \in GroupNames}
    \cup {SparseFeat(n, 2, DefaultEmbeddingDim, TRUE, NONE, DEFAULT_GROUP_NAME) : n \in FeatNames}
    \cup {VarLenSparseFeat(SparseFeat(n, 2, DefaultEmbeddingDim, FALSE, e, DEFAULT_GROUP_NAME),
                           2, "mean", NONE) : n \in FeatNames, e \in EmbeddingNames}
    \cup {DenseFeat("b", 1)}

InitLookup ==
    /\ feature_columns \in ListsOf(LookupDescriptors, MaxLookupCols)
    /\ features = build_input_features(feature_columns).features
    /\ start = build_input_features(feature_columns).start
    /\ i = Len(feature_columns) + 1
    /\ linear = FALSE
    /\ embedding_dict = create_embedding_matrix(feature_columns, linear)
    /\ weight = InitialWeights(embedding_dict)
    /\ pc = "ready"
    /\ LookupIdle /\ CtorIdle /\ CombineIdle

EmbeddingLookup ==
    /\ pc = "ready"
    /\ \E rfl \in SUBSET FeatNames, toList \in BOOLEAN :
          /\ return_feat_list' = rfl
          /\ to_list' = toList
          /\ group_embedding_dict' =
                embedding_lookup(embedding_dict, features,
                                 SelectSeq(feature_columns, IsSparse), rfl, toList)
    /\ pc' = IF group_embedding_dict'.raised # NONE THEN "KeyError" ELSE "sparse_done"
    /\ UNCHANGED <<feature_columns, varlen_embedding_vec_dict, varlen_sparse_embedding_list,
                   layoutVars, ctorVars, tableVars, combineVars>>

VarlenEmbeddingLookup ==
    /\ pc = "sparse_done"
    /\ varlen_embedding_vec_dict' =
          varlen_embedding_lookup(embedding_dict, features,
                                  SelectSeq(feature_columns, IsVarLen))
    /\ pc' = IF varlen_embedding_vec_dict'.raised # NONE THEN "KeyError" ELSE "varlen_done"
    /\ UNCHANGED <<feature_columns, return_feat_list, to_list, group_embedding_dict,
                   varlen_sparse_embedding_list, layoutVars, ctorVars, tableVars, combineVars>>

\* the embeddings the two lookups returned
SparseEmbs ==
    IF to_list
    THEN {group_embedding_dict.value[n] : n \in 1..Len(group_embedding_dict.value)}
    ELSE UNION {{group_embedding_dict.value[n].v[m] :
                    m \in 1..Len(group_embedding_dict.value[n].v)} :
                n \in 1..Len(group_embedding_dict.value)}

VarlenEmbs ==
    {varlen_embedding_vec_dict.value[n].v : n \in 1..Len(varlen_embedding_vec_dict.value)}

\* optimizer.step(): a table reached through a returned embedding gets a new weight
OptimizerStep ==
    /\ pc = "varlen_done"
    /\ \E emb \in SparseEmbs \cup VarlenEmbs :
          weight' = [weight EXCEPT ![emb.table.id] = 1]
    /\ pc' = "trained"
    /\ UNCHANGED <<feature_columns, linear, embedding_dict, layoutVars, ctorVars,
                   lookupVars, combineVars>>

NextLookup == EmbeddingLookup \/ VarlenEmbeddingLookup \/ OptimizerStep

SpecLookup == InitLookup /\ [][NextLookup]_vars

\* the descriptors handed to embedding_lookup, and those of them it selects
SparseColumns == SelectSeq(feature_columns, IsSparse)
IsSelected(fc) == return_feat_list = {} \/ fc.name \in return_feat_list
LookupReturned == pc \in {"sparse_done", "varlen_done", "trained"}

\* C5 (as claimed): embedding_lookup never returns when a selected sparse
\* descriptor has use_hash = True (it fails with the unsupported-feature error).
C5_UseHashRejected ==
    LookupReturned =>
        \A n \in 1..Len(SparseColumns) :
            IsSelected(SparseColumns[n]) => ~SparseColumns[n].use_hash

\* C7: both lookups find a table for every descriptor they serve, and any two
\* embeddings they return for descriptors that share an embedding_name come
\* from one and the same nn.Embedding instance, one that the ModuleDict
\* holds; so both see the weight an optimizer step wrote through either.
C7_SharedTableInstance ==
    /\ pc # "KeyError"
    /\ pc \in {"varlen_done", "trained"} =>
          \A e1, e2 \in SparseEmbs \cup VarlenEmbs :
              e1.fc.embedding_name = e2.fc.embedding_name =>
                  /\ e1.table.id = e2.table.id
                  /\ \E n \in 1..Len(embedding_dict) : embedding_dict[n].v = e1.table
                  /\ weight[e1.table.id] = weight[e2.table.id]

\* after an optimizer step: a SparseFeat and a VarLenSparseFeat of different
\* names share an embedding_name, both lookups returned an embedding for
\* them, and the new weight is the one both embeddings' tables hold
C7_Witness ==
    /\ pc = "trained"
    /\ \E e1 \in SparseEmbs, e2 \in VarlenEmbs :
          /\ e1.fc.name # e2.fc.name
          /\ e1.fc.embedding_name = e2.fc.embedding_name
          /\ weight[e1.table.id] = 1
          /\ weight[e2.table.id] = 1

\* C8: without to_list, the returned mapping has a key for exactly the
\* group_names of the selected sparse descriptors, and the list of a group is,
\* in descriptor order, one embedding per selected descriptor of that group:
\* the table under the descriptor's embedding_name applied to the slice at the
\* layout range of the descriptor's name.
C8_GroupedInDescriptorOrder ==
    (LookupReturned /\ ~to_list) =>
        \A g \in GroupNames :
            LET InGroup(fc) == IsSelected(fc) /\ fc.group_name = g
                picked == SelectSeq(SparseColumns, InGroup)
                out == group_embedding_dict.value
            IN  /\ Keys(out) \subseteq GroupNames
                /\ Has(out, g) <=> picked # <<>>
                /\ Has(out, g) =>
                      Get(out, g) = [n \in 1..Len(picked) |->
                                        [fc    |-> picked[n],
                                         table |-> Get(embedding_dict, picked[n].embedding_name),
                                         slice |-> Get(features, picked[n].name)]]

\* a call with a non-empty return_feat_list that left a sparse descriptor
\* out and returned two groups
C8_Witness ==
    /\ pc = "sparse_done"
    /\ ~to_list
    /\ return_feat_list = {"a"}
    /\ Len(SparseColumns) = 3
    /\ SparseColumns[1].name = "a" /\ SparseColumns[2].name = "b" /\ SparseColumns[3].name = "a"
    /\ SparseColumns[1].group_name # SparseColumns[3].group_name
    /\ Len(group_embedding_dict.value) = 2
    /\ \A n \in 1..2 : Len(group_embedding_dict.value[n].v) = 1

----------------------------------------------------------------------------
(* Specification SpecCombine: one call of combined_dnn_input.  The elements *)
(* of the tensors are named by where they come from: <<side, n, j>> is      *)
(* element j of tensor n of that side's list.                               *)

DimLists == ListsOf(1..MaxDim, MaxVecs)

SparseTensors(dims) ==
    [n \in 1..Len(dims) |-> << [j \in 1..dims[n] |-> <<"sparse", n, j>>] >>]

DenseTensors(dims) ==
    [n \in 1..Len(dims) |-> [j \in 1..dims[n] |-> <<"dense", n, j>>]]

InitCombine ==
    /\ \E sdims \in DimLists, ddims \in DimLists :
          /\ sparse_embedding_list = SparseTensors(sdims)
          /\ dense_value_list = DenseTensors(ddims)
    /\ dnn_input = [raised |-> NONE, value |-> <<>>]
    /\ pc = "call"
    /\ feature_columns = <<>>
    /\ LayoutIdle /\ CtorIdle /\ TableIdle /\ LookupIdle

CombinedDnnInput ==
    /\ pc = "call"
    /\ dnn_input' = combined_dnn_input(sparse_embedding_list, dense_value_list)
    /\ pc' = IF dnn_input'.raised # NONE THEN "raised" ELSE "returned"
    /\ UNCHANGED <<feature_columns, sparse_embedding_list, dense_value_list,
                   layoutVars, ctorVars, tableVars, lookupVars>>

NextCombine == CombinedDnnInput

SpecCombine == InitCombine /\ [][NextCombine]_vars

\* the widths of the first n tensors of a list, added up
RECURSIVE SparseWidth(_)
SparseWidth(n) == IF n = 0 THEN 0 ELSE SparseWidth(n - 1) + Len(sparse_embedding_list[n][1])
RECURSIVE DenseWidth(_)
DenseWidth(n) == IF n = 0 THEN 0 ELSE DenseWidth(n - 1) + Len(dense_value_list[n])

\* C9: the call raises exactly when both lists are empty; otherwise it
\* returns, per example, every element of every sparse tensor in list order
\* followed by every element of every dense tensor in list order and nothing
\* else (so one side alone when the other list is empty).
C9_CombineCases ==
    pc \in {"raised", "returned"} =>
        LET ns == Len(sparse_embedding_list)
            nd == Len(dense_value_list)
        IN  /\ pc = "raised" <=> (ns = 0 /\ nd = 0)
            /\ pc = "raised" => dnn_input.raised = "NotImplementedError"
            /\ pc = "returned" =>
                  /\ Len(dnn_input.value) = SparseWidth(ns) + DenseWidth(nd)
                  /\ \A n \in 1..ns : \A j \in 1..Len(sparse_embedding_list[n][1]) :
                        dnn_input.value[SparseWidth(n - 1) + j] = <<"sparse", n, j>>
                  /\ \A n \in 1..nd : \A j \in 1..Len(dense_value_list[n]) :
                        dnn_input.value[SparseWidth(ns) + DenseWidth(n - 1) + j] = <<"dense", n, j>>

\* two embeddings and one dense vector of two were combined: the dense
\* elements come last
C9_Witness ==
    /\ pc = "returned"
    /\ Len(sparse_embedding_list) = 2
    /\ Len(dense_value_list) = 1
    /\ Len(dense_value_list[1]) = 2
    /\ dnn_input.value[Len(dnn_input.value)] = <<"dense", 1, 2>>
    /\ dnn_input.value[1] = <<"sparse", 1, 1>>

----------------------------------------------------------------------------
(* Layout completeness, checked under SpecLayout *)

\* C12 (as claimed): a returned layout has a key for the name of every
\* descriptor of the list and for the length_name of every VarLenSparseFeat
\* of the list that declares one.
C12_LayoutComplete ==
    pc = "returned" =>
        \A n \in 1..Len(feature_columns) :
            /\ Has(features, feature_columns[n].name)
            /\ (IsVarLen(feature_columns[n]) /\ feature_columns[n].length_name # NONE) =>
                  Has(features, feature_columns[n].length_name)

----------------------------------------------------------------------------
(* Specification SpecPooling: the layout and the tables are built from one  *)
(* descriptor list; then embedding_lookup, varlen_embedding_lookup and      *)
(* get_varlen_pooling_list on the variable-length descriptors of the list.  *)

Combiners == {"mean", "sum"}

PoolingDescriptors ==
    {SparseFeat(n, 2, DefaultEmbeddingDim, FALSE, NONE, DEFAULT_GROUP_NAME) : n \in FeatNames}
    \cup {VarLenSparseFeat(SparseFeat(n, 2, DefaultEmbeddingDim, FALSE, NONE, DEFAULT_GROUP_NAME),
                           2, c, l) : n \in FeatNames, c \in Combiners, l \in LengthNames}
    \cup {DenseFeat("b", 1)}

InitPooling ==
    /\ feature_columns \in ListsOf(PoolingDescriptors, MaxPoolCols)
    /\ features = build_input_features(feature_columns).features
    /\ start = build_input_features(feature_columns).start
    /\ i = Len(feature_columns) + 1
    /\ linear = FALSE
    /\ embedding_dict = create_embedding_matrix(feature_columns, linear)
    /\ weight = InitialWeights(embedding_dict)
    /\ pc = "ready"
    /\ LookupIdle /\ CtorIdle /\ CombineIdle

VarlenColumns == SelectSeq(feature_columns, IsVarLen)

GetVarlenPoolingList ==
    /\ pc = "varlen_done"
    /\ varlen_sparse_embedding_list' =
          get_varlen_pooling_list(varlen_embedding_vec_dict.value, features, VarlenColumns)
    /\ pc' = IF varlen_sparse_embedding_list'.raised # NONE THEN "KeyError" ELSE "pooled"
    /\ UNCHANGED <<feature_columns, return_feat_list, to_list, group_embedding_dict,
                   varlen_embedding_vec_dict, layoutVars, ctorVars, tableVars, combineVars>>

NextPooling == EmbeddingLookup \/ VarlenEmbeddingLookup \/ GetVarlenPoolingList

SpecPooling == InitPooling /\ [][NextPooling]_vars

\* C11 (as claimed): get_varlen_pooling_list returns one pooled vector per
\* variable-length descriptor, in descriptor order, each reduced with the
\* descriptor's combiner; a descriptor that declares a length_name is pooled
\* in length mode on the slice at the length_name's layout range, one that
\* declares none in mask mode on the mask "slice != 0" over its own range.
C11_PoolingModes ==
    pc \in {"pooled", "KeyError"} =>
        /\ pc = "pooled"
        /\ Len(varlen_sparse_embedding_list.value) = Len(VarlenColumns)
        /\ \A n \in 1..Len(VarlenColumns) :
              LET fc  == VarlenColumns[n]
                  emb == varlen_sparse_embedding_list.value[n]
              IN  /\ emb.mode = fc.combiner
                  /\ fc.length_name # NONE =>
                        /\ ~emb.supports_masking
                        /\ emb.inputs[2] = [kind  |-> "length",
                                            slice |-> Get(features, fc.length_name)]
                  /\ fc.length_name = NONE =>
                        /\ emb.supports_masking
                        /\ emb.inputs[2] = [kind  |-> "mask",
                                            slice |-> Get(features, fc.name)]

====
